---- MODULE Spec2Model ----
(***************************************************************************)
(* AnimalClassifier (immich_ml/models/animal_recognition/classification.py)*)
(*                                                                         *)
(* The instance (model_name, model, input_size), its three operations      *)
(* (load, predict, configure) and predict's post-processing: softmax,      *)
(* top-K selection, keyword scan into buckets, and the final sort.         *)
(*                                                                         *)
(* Conventions.  Class indices are 0-based as in the code; a sequence s    *)
(* indexed by class index i is read as s[i + 1].  Probabilities are        *)
(* fixed-point numbers in units of 1/Scale (a finite-precision model of    *)
(* the float32 arithmetic, with underflow to 0).  A Python dict is a       *)
(* sequence of entries in insertion order.  The network itself is an       *)
(* external collaborator: in evaluation mode its logits are a function of  *)
(* the image, and they are finite.                                         *)
(***************************************************************************)
EXTENDS Integers, Sequences, FiniteSets, TLC

(***************************************************************************)
(* Bounds of the model.                                                    *)
(***************************************************************************)
\* class count of the small architecture (fewer classes than TopK)
SmallClasses == 3
\* class count of the big architecture (more classes than TopK)
BigClasses == 22
\* logits of classes 0 and 1 range over 0..MaxLogit; all others are BaseLogit
MaxLogit == 2
\* fixed-point resolution of exp() and of the probabilities
Scale == 1000

(***************************************************************************)
(* Program constants.                                                      *)
(***************************************************************************)
\* classification.py:84  np.argsort(probs)[-20:]
TopK == 20
\* classification.py:53  self.input_size = (3, 224, 224)
INPUT_SIZE == <<3, 224, 224>>
\* classification.py:42  model_name: str = "resnet34"
DEFAULT_MODEL_NAME == "resnet34"

\* classification.py:13-30, a dict in its definition order
ANIMAL_BUCKETS == <<
    [bucket |-> "Dog", keywords |-> <<"dog", "labrador", "retriever", "shepherd", "chihuahua", "pug", "husky", "terrier">>],
    [bucket |-> "Cat", keywords |-> <<"cat", "tabby", "siamese", "persian", "lynx">>],
    [bucket |-> "Bird", keywords |-> <<"bird", "parrot", "jay", "magpie", "penguin", "ostrich", "eagle", "owl", "king penguin">>],
    [bucket |-> "Horse", keywords |-> <<"horse", "zebra", "donkey">>],
    [bucket |-> "Cattle", keywords |-> <<"cow", "ox", "bison", "buffalo">>],
    [bucket |-> "Sheep", keywords |-> <<"sheep", "ram">>],
    [bucket |-> "Goat", keywords |-> <<"goat">>],
    [bucket |-> "Pig", keywords |-> <<"pig", "boar", "hog">>],
    [bucket |-> "Rabbit", keywords |-> <<"hare", "rabbit">>],
    [bucket |-> "Bear", keywords |-> <<"bear", "panda">>],
    [bucket |-> "Feline", keywords |-> <<"tiger", "lion", "leopard", "cheetah", "jaguar">>],
    [bucket |-> "Canine", keywords |-> <<"wolf", "fox">>],
    [bucket |-> "Rodent", keywords |-> <<"mouse", "rat", "squirrel", "hamster">>],
    [bucket |-> "Reptile", keywords |-> <<"snake", "lizard", "crocodile", "turtle">>],
    [bucket |-> "Fish", keywords |-> <<"fish", "shark", "ray", "goldfish">>],
    [bucket |-> "Insect", keywords |-> <<"butterfly", "bee", "ant", "dragonfly", "ladybug", "beetle", "mosquito">>]
>>

(***************************************************************************)
(* Strings: str.lower(), the `in` substring test, f"class_{i}".            *)
(***************************************************************************)
Range(s) == {s[i] : i \in 1..Len(s)}

UpperLetters == "ABCDEFGHIJKLMNOPQRSTUVWXYZ"

LowerLetters == "abcdefghijklmnopqrstuvwxyz"

\* one character of str.lower()
LowerChar(c) ==
    IF \E i \in 1..Len(UpperLetters) : SubSeq(UpperLetters, i, i) = c
    THEN LET i == CHOOSE j \in 1..Len(UpperLetters) : SubSeq(UpperLetters, j, j) = c
         IN  SubSeq(LowerLetters, i, i)
    ELSE c

RECURSIVE Lower(_)
\* classification.py:87  labels[idx].lower()
Lower(s) ==
    IF Len(s) = 0 THEN ""
    ELSE LowerChar(SubSeq(s, 1, 1)) \o Lower(SubSeq(s, 2, Len(s)))

\* classification.py:91  k in label
Contains(k, label) ==
    \E i \in 1..(Len(label) - Len(k) + 1) : SubSeq(label, i, i + Len(k) - 1) = k

DecimalDigits == "0123456789"

RECURSIVE Str(_)
\* decimal formatting of a non-negative int inside the f-string
Str(n) ==
    IF n < 10 THEN SubSeq(DecimalDigits, n + 1, n + 1)
    ELSE Str(n \div 10) \o SubSeq(DecimalDigits, (n % 10) + 1, (n % 10) + 1)

\* a bug that names the placeholders after the word "category"
PlaceholderLabel_category(i) == "category_" \o Str(i)

\* classification.py:81  f"class_{i}"
PlaceholderLabel(i) == "class_" \o Str(i)

\* classification.py:81  [f"class_{i}" for i in range(len(probs))]
PlaceholderLabels(n) == [j \in 1..n |-> PlaceholderLabel(j - 1)]

(***************************************************************************)
(* The environment: what the label import yields and how the sort routine  *)
(* orders equal keys.  Both are fixed for the life of the process.         *)
(***************************************************************************)
\* labels of classes 0 and 1 in an importable label list
Vocab == {"Labrador retriever", "labrador fox", "Siamese cat", "desk"}

\* an importable label list of n entries: classes 0 and 1 from Vocab; with
\* tail = "animals" class 2 is a cat and the last entry a non-animal whose
\* name contains "rat"; all other entries match no keyword
LabelList(x, y, n, tail) ==
    [j \in 1..n |->
        IF j = 1 THEN x
        ELSE IF j = 2 THEN y
        ELSE IF j = 3 /\ tail = "animals" THEN "tabby"
        ELSE IF j = n /\ tail = "animals" THEN "crate"
        ELSE "cup"]

\* the shapes of an importable list: as long as the big architecture has
\* classes, or one entry short of that
ListShapes ==
    {[n |-> BigClasses, tail |-> "animals"],
     [n |-> BigClasses - 1, tail |-> "animals"],
     [n |-> BigClasses, tail |-> "plain"]}

\* the import fails, or it yields a list
LabelSources ==
    {[available |-> FALSE, labels |-> <<>>]}
    \cup {[available |-> TRUE, labels |-> LabelList(x, y, sh.n, sh.tail)] :
            x \in Vocab, y \in Vocab, sh \in ListShapes}

\* np.argsort's order among equal probabilities is not specified; it is a
\* fixed property of the build
TieBreaks == {"index_ascending", "index_descending"}

\* the architectures a model name can stand for
ModelNames == {DEFAULT_MODEL_NAME, "tiny_net"}

NumClasses(name) == IF name = DEFAULT_MODEL_NAME THEN BigClasses ELSE SmallClasses

\* an image, as far as the network tells images apart
Images == [a : 0..MaxLogit, b : 0..MaxLogit]

BaseLogit == 1

NoModel == [name |-> "", classes |-> 0, training |-> FALSE]

NoImage == [a |-> -1, b |-> -1]

NoSize == <<>>

VARIABLES
    model_name,   \* self.model_name
    model,        \* self.model
    input_size,   \* self.input_size
    labelSource,  \* what `from timm.data import IMAGENET_DEFAULT_LABELS` yields
    tieBreak,     \* the sort routine's order among equal keys
    op,           \* the last operation called
    inputs,       \* predict's argument
    probs,        \* predict's local
    labels,       \* predict's local
    topk,         \* predict's local
    found,        \* predict's local
    outcome,      \* what the last operation returned or raised
    repeated      \* the last two operations were predict calls on the same image

vars == <<model_name, model, input_size, labelSource, tieBreak, op, inputs,
          probs, labels, topk, found, outcome, repeated>>

(***************************************************************************)
(* __init__ and _load                                                      *)
(***************************************************************************)
\* classification.py:49  timm.create_model: a fresh torch module is in training mode
CreateModel(name) == [name |-> name, classes |-> NumClasses(name), training |-> TRUE]

\* a load that leaves the network in training mode
Eval_skipped(m) == m

\* classification.py:50  self.model.eval()
Eval(m) == [m EXCEPT !.training = FALSE]

NoReturn == [status |-> "none", result |-> <<>>]

\* classification.py:42-45
Init ==
    /\ model_name \in ModelNames
    /\ model = NoModel
    /\ input_size = NoSize
    /\ labelSource \in LabelSources
    /\ tieBreak \in TieBreaks
    /\ op = "init"
    /\ inputs = NoImage
    /\ probs = <<>>
    /\ labels = <<>>
    /\ topk = <<>>
    /\ found = <<>>
    /\ outcome = NoReturn
    /\ repeated = FALSE

\* classification.py:47-54
Load ==
    /\ model = NoModel
    /\ model' = Eval(CreateModel(model_name))
    /\ input_size' = INPUT_SIZE
    /\ op' = "load"
    /\ inputs' = NoImage
    /\ probs' = <<>>
    /\ labels' = <<>>
    /\ topk' = <<>>
    /\ found' = <<>>
    /\ outcome' = NoReturn
    /\ repeated' = FALSE
    /\ UNCHANGED <<model_name, labelSource, tieBreak>>

(***************************************************************************)
(* predict: forward pass and softmax                                       *)
(***************************************************************************)
\* the network's output for an image: one logit per class
Logits(m, img) ==
    [j \in 1..m.classes |->
        IF j = 1 THEN img.a ELSE IF j = 2 THEN img.b ELSE BaseLogit]

\* classification.py:71  self.model(t): a function of the image in evaluation
\* mode; in training mode the stochastic layers make it any of several outputs
Forward(m, img) ==
    IF m.training THEN {Logits(m, i) : i \in Images} ELSE {Logits(m, img)}

RECURSIVE SeqMax(_)
\* np.max
SeqMax(s) ==
    IF Len(s) = 1 THEN s[1]
    ELSE LET r == SeqMax(Tail(s)) IN IF s[1] >= r THEN s[1] ELSE r

RECURSIVE SeqSum(_)
\* ndarray.sum
SeqSum(s) == IF Len(s) = 0 THEN 0 ELSE s[1] + SeqSum(Tail(s))

RECURSIVE ExpNeg(_)
\* np.exp(-d) for d >= 0 in units of 1/Scale: 1 at d = 0, decreasing, 0 once it underflows
ExpNeg(d) == IF d = 0 THEN Scale ELSE (ExpNeg(d - 1) * 368) \div 1000

\* classification.py:72  np.exp(logits - np.max(logits))
Exps(logits, mx) == [j \in 1..Len(logits) |-> ExpNeg(mx - logits[j])]

\* classification.py:73  probs / probs.sum()
DividedBy(e, sm) == [j \in 1..Len(e) |-> (e[j] * Scale) \div sm]

\* classification.py:73
Normalised(e) == DividedBy(e, SeqSum(e))

\* classification.py:72-73
Softmax(logits) == Normalised(Exps(logits, SeqMax(logits)))

(***************************************************************************)
(* predict: labels                                                         *)
(***************************************************************************)
\* a fallback that is also taken when the imported list is too short
ResolveLabels_padded(src, n) ==
    IF src.available /\ Len(src.labels) >= n THEN src.labels ELSE PlaceholderLabels(n)

\* classification.py:76-81
ResolveLabels(src, n) ==
    IF src.available THEN src.labels ELSE PlaceholderLabels(n)

(***************************************************************************)
(* predict: top-K selection                                                *)
(***************************************************************************)
\* position i sorts before position j
SortsBefore(p, tie, i, j) ==
    \/ p[i] < p[j]
    \/ p[i] = p[j] /\ (IF tie = "index_ascending" THEN i < j ELSE i > j)

\* the number of positions that sort before each position
Ranks(p, tie) ==
    [i \in 1..Len(p) |-> Cardinality({j \in 1..Len(p) : SortsBefore(p, tie, j, i)})]

\* the 0-based class indices in the order of their ranks
ByRank(rank) ==
    [k \in 1..Len(rank) |-> (CHOOSE i \in 1..Len(rank) : rank[i] = k - 1) - 1]

\* classification.py:84  np.argsort(probs): class indices by ascending probability
Argsort(p, tie) == ByRank(Ranks(p, tie))

\* a slice that takes the first k entries
LastK_first(s, k) == SubSeq(s, 1, IF Len(s) < k THEN Len(s) ELSE k)

\* classification.py:84  s[-k:]
LastK(s, k) == SubSeq(s, IF Len(s) > k THEN Len(s) - k + 1 ELSE 1, Len(s))

\* classification.py:84  s[::-1]
Reversed(s) == [k \in 1..Len(s) |-> s[Len(s) - k + 1]]

\* classification.py:84
TopKOf(p, tie) == Reversed(LastK(Argsort(p, tie), TopK))

(***************************************************************************)
(* predict: keyword scan                                                   *)
(***************************************************************************)
RECURSIVE KeywordHits(_, _, _)
\* classification.py:90-91 for one bucket: one hit per keyword found in the label
KeywordHits(bucket, keywords, label) ==
    IF Len(keywords) = 0 THEN <<>>
    ELSE (IF Contains(keywords[1], label) THEN <<bucket>> ELSE <<>>)
         \o KeywordHits(bucket, Tail(keywords), label)

RECURSIVE BucketHits(_, _)
\* classification.py:89-91: the buckets hit by a lower-cased label, in loop order
BucketHits(buckets, label) ==
    IF Len(buckets) = 0 THEN <<>>
    ELSE KeywordHits(buckets[1].bucket, buckets[1].keywords, label)
         \o BucketHits(Tail(buckets), label)

\* every label the environment can produce
KnownLabels ==
    UNION {Range(src.labels) : src \in LabelSources}
    \cup Range(PlaceholderLabels(BigClasses))

\* classification.py:87-91, evaluated once per label
HitsTable == [l \in KnownLabels |-> BucketHits(ANIMAL_BUCKETS, Lower(l))]

\* classification.py:87-91
Hits(label) == HitsTable[label]

\* bucket in found
HasBucket(f, bucket) == \E i \in 1..Len(f) : f[i].bucket = bucket

\* found[bucket]
Get(f, bucket) == f[CHOOSE i \in 1..Len(f) : f[i].bucket = bucket].score

\* found[bucket] = score: a new key goes last, an old key keeps its place
Put(f, bucket, score) ==
    IF HasBucket(f, bucket)
    THEN [i \in 1..Len(f) |-> IF f[i].bucket = bucket THEN [f[i] EXCEPT !.score = score] ELSE f[i]]
    ELSE Append(f, [bucket |-> bucket, score |-> score])

\* an update that adds the scores of a bucket's classes up
Update_sum(f, bucket, score) ==
    IF HasBucket(f, bucket) THEN Put(f, bucket, Get(f, bucket) + score)
    ELSE Put(f, bucket, score)

\* an update that records every hit as an entry of its own
Update_append(f, bucket, score) == Append(f, [bucket |-> bucket, score |-> score])

\* classification.py:93-94
Update(f, bucket, score) ==
    IF ~HasBucket(f, bucket) \/ Get(f, bucket) < score THEN Put(f, bucket, score) ELSE f

RECURSIVE ApplyHits(_, _, _)
\* classification.py:89-94 for one class
ApplyHits(f, hits, score) ==
    IF Len(hits) = 0 THEN f
    ELSE ApplyHits(Update(f, hits[1], score), Tail(hits), score)

\* a dict that outlives the call
NewFound_stale == found

\* classification.py:85  found = {}
NewFound == <<>>

RECURSIVE ScanFrom(_, _, _, _, _)
\* classification.py:86-94 from the k-th selected class on; labels[idx] raises
\* IndexError when idx is past the end of the list
ScanFrom(tk, lb, p, k, f) ==
    IF k > Len(tk) THEN [raised |-> FALSE, found |-> f]
    ELSE IF tk[k] >= Len(lb) THEN [raised |-> TRUE, found |-> f]
    ELSE ScanFrom(tk, lb, p, k + 1, ApplyHits(f, Hits(lb[tk[k] + 1]), p[tk[k] + 1]))

\* classification.py:85-94
Scan(tk, lb, p) == ScanFrom(tk, lb, p, 1, NewFound)

(***************************************************************************)
(* predict: result                                                         *)
(***************************************************************************)
\* the entries of f in the order of their ranks
Permuted(f, rank) == [k \in 1..Len(f) |-> f[CHOOSE i \in 1..Len(f) : rank[i] = k - 1]]

\* the rank of each entry by ascending score, equal scores in insertion order
AscendingRanks(f) ==
    [i \in 1..Len(f) |-> Cardinality({j \in 1..Len(f) :
        \/ f[j].score < f[i].score
        \/ f[j].score = f[i].score /\ j < i})]

\* the rank of each entry by descending score, equal scores in insertion order
DescendingRanks(f) ==
    [i \in 1..Len(f) |-> Cardinality({j \in 1..Len(f) :
        \/ f[j].score > f[i].score
        \/ f[j].score = f[i].score /\ j < i})]

\* an ascending sort (reverse=True left out)
SortedByScore_ascending(f) == Permuted(f, AscendingRanks(f))

\* an ascending sort reversed afterwards: equal scores in reverse insertion order
SortedByScore_reversed(f) == Reversed(Permuted(f, AscendingRanks(f)))

\* classification.py:97  sorted(found, key=found.get, reverse=True): descending,
\* stable (equal scores keep their insertion order)
SortedByScore(f) == Permuted(f, DescendingRanks(f))

\* classification.py:97  {"label": key, "score": float(found[key])} for each key
Entries(s) == [k \in 1..Len(s) |-> [label |-> s[k].bucket, score |-> s[k].score]]

\* a result that reports a lack of matches as an entry
Result_unknown(f) ==
    IF Len(f) = 0 THEN <<[label |-> "Unknown", score |-> 0]>>
    ELSE Entries(SortedByScore(f))

\* classification.py:97
Result(f) == Entries(SortedByScore(f))

(***************************************************************************)
(* predict and configure                                                   *)
(***************************************************************************)
\* classification.py:56-98
Predict(img) ==
    /\ op' = "predict"
    /\ inputs' = img
    /\ repeated' = (op = "predict" /\ inputs = img)
    /\ IF model = NoModel
       THEN \* classification.py:71  self.model is None: not callable
            /\ probs' = <<>>
            /\ labels' = <<>>
            /\ topk' = <<>>
            /\ found' = <<>>
            /\ outcome' = [status |-> "TypeError", result |-> <<>>]
       ELSE \* each local is bound once, in the order the code assigns it
            \E logits \in Forward(model, img) :
            \E p \in {Softmax(logits)} :
            \E lb \in {ResolveLabels(labelSource, Len(p))} :
            \E tk \in {TopKOf(p, tieBreak)} :
            \E sc \in {Scan(tk, lb, p)} :
                /\ probs' = p
                /\ labels' = lb
                /\ topk' = tk
                /\ found' = sc.found
                /\ outcome' = IF sc.raised
                              THEN [status |-> "IndexError", result |-> <<>>]
                              ELSE [status |-> "returned", result |-> Result(sc.found)]
    /\ UNCHANGED <<model_name, model, input_size, labelSource, tieBreak>>

\* the keyword arguments a caller may pass to configure
ConfigureArgs == {"none", "model_name"}

\* classification.py:100-102: self.model after configure
ConfiguredModel(m, kwargs) == m

\* classification.py:100-102
Configure(kwargs) ==
    /\ op' = "configure"
    /\ model' = ConfiguredModel(model, kwargs)
    /\ inputs' = NoImage
    /\ probs' = <<>>
    /\ labels' = <<>>
    /\ topk' = <<>>
    /\ found' = <<>>
    /\ outcome' = NoReturn
    /\ repeated' = FALSE
    /\ UNCHANGED <<model_name, input_size, labelSource, tieBreak>>

Next ==
    \/ Load
    \/ \E img \in Images : Predict(img)
    \/ \E kwargs \in ConfigureArgs : Configure(kwargs)

Spec == Init /\ [][Next]_vars

(***************************************************************************)
(* Vocabulary of the properties                                            *)
(***************************************************************************)
\* the last operation was a predict call on a loaded instance
Predicted == op = "predict" /\ model # NoModel

\* ... and it returned a list
Returned == Predicted /\ outcome.status = "returned"

\* the class indices predict selected
Selected == Range(topk)

\* the bucket names of the returned list
ResultBuckets == {outcome.result[k].label : k \in 1..Len(outcome.result)}

\* the buckets with a keyword that occurs in the lower-cased label
MatchedBuckets ==
    [l \in KnownLabels |->
        {ANIMAL_BUCKETS[b].bucket : b \in
            {c \in 1..Len(ANIMAL_BUCKETS) :
                \E kw \in Range(ANIMAL_BUCKETS[c].keywords) : Contains(kw, Lower(l))}}]

\* the selected classes whose label matches the bucket
SelectedMatching(bucket) ==
    {i \in Selected : i < Len(labels) /\ bucket \in MatchedBuckets[labels[i + 1]]}

\* every selected class has a label
SelectedLabelled == \A i \in Selected : i < Len(labels)

\* the largest member of a non-empty set of numbers
SetMax(S) == CHOOSE x \in S : \A y \in S : y <= x

\* the entries of a dict, without their order
EntrySet(f) == Range(f)

(***************************************************************************)
(* C1: every returned score lies in [0,1] (0..Scale in fixed point) and    *)
(* the returned list is sorted non-increasing by score.                    *)
(***************************************************************************)
C1_ScoresBoundedAndSorted ==
    Returned =>
        /\ \A k \in 1..Len(outcome.result) :
              outcome.result[k].score >= 0 /\ outcome.result[k].score <= Scale
        /\ \A k \in 1..(Len(outcome.result) - 1) :
              outcome.result[k].score >= outcome.result[k + 1].score

\* a returned list of three entries with a strict descent and a tie
C1_Witness ==
    /\ Returned
    /\ Len(outcome.result) >= 3
    /\ \E k \in 1..(Len(outcome.result) - 1) :
          outcome.result[k].score > outcome.result[k + 1].score
    /\ \E k \in 1..(Len(outcome.result) - 1) :
          outcome.result[k].score = outcome.result[k + 1].score

(***************************************************************************)
(* C2: the bucket names of a returned list are pairwise distinct.          *)
(***************************************************************************)
C2_BucketsDistinct ==
    Returned =>
        \A k, l \in 1..Len(outcome.result) :
            k # l => outcome.result[k].label # outcome.result[l].label

\* a returned bucket matched by two selected classes, one of them by two
\* keywords of that bucket ("Siamese cat": cat, siamese)
C2_Witness ==
    /\ Returned
    /\ \E b \in ResultBuckets :
          /\ Cardinality(SelectedMatching(b)) >= 2
          /\ \E i \in SelectedMatching(b) :
                Cardinality({k \in 1..Len(Hits(labels[i + 1])) :
                                Hits(labels[i + 1])[k] = b}) >= 2

(***************************************************************************)
(* C3: the score of every returned bucket is the maximum probability among *)
(* the selected classes whose label matches it (not their sum), and the    *)
(* same entries come out when the selected classes are scanned in the      *)
(* opposite order.                                                         *)
(***************************************************************************)
C3_ScoreIsMax ==
    Returned =>
        /\ \A k \in 1..Len(outcome.result) :
              /\ SelectedMatching(outcome.result[k].label) # {}
              /\ outcome.result[k].score =
                    SetMax({probs[i + 1] : i \in SelectedMatching(outcome.result[k].label)})
        /\ EntrySet(ScanFrom(Reversed(topk), labels, probs, 1, <<>>).found) = EntrySet(found)

\* a returned bucket matched by two selected classes of different, non-zero
\* probability
C3_Witness ==
    /\ Returned
    /\ \E k \in 1..Len(outcome.result) :
          \E i, j \in SelectedMatching(outcome.result[k].label) :
              /\ probs[i + 1] > probs[j + 1]
              /\ probs[j + 1] > 0
              /\ outcome.result[k].score = probs[i + 1]

(***************************************************************************)
(* C4: when one class has strictly the highest probability and its label   *)
(* contains "labrador", the first entry of the returned list is Dog with   *)
(* that class's probability, whatever else that label or the other         *)
(* selected classes match.                                                 *)
(***************************************************************************)
\* class i has strictly the highest probability and a label with "labrador" in it
TopIsLabrador(i) ==
    /\ i < Len(labels)
    /\ \A j \in 0..(Len(probs) - 1) : j # i => probs[i + 1] > probs[j + 1]
    /\ Contains("labrador", Lower(labels[i + 1]))

\* C4: a strictly highest class labelled "labrador" puts Dog, with its probability, first
C4_LabradorFirst ==
    Returned =>
        \A i \in 0..(Len(probs) - 1) :
            TopIsLabrador(i) =>
                /\ Len(outcome.result) >= 1
                /\ outcome.result[1] = [label |-> "Dog", score |-> probs[i + 1]]

\* the top class is a labrador whose label matches other buckets too, which
\* tie with Dog, and another selected class matches a further bucket
C4_Witness ==
    /\ Returned
    /\ \E i \in 0..(Len(probs) - 1) :
          /\ TopIsLabrador(i)
          /\ Cardinality(MatchedBuckets[labels[i + 1]]) >= 3
    /\ Len(outcome.result) >= 4
    /\ outcome.result[1].label = "Dog"
    /\ outcome.result[2].score = outcome.result[1].score
    /\ outcome.result[3].score = outcome.result[1].score

(***************************************************************************)
(* C5: when the label list is the list of placeholder names class_<index>, *)
(* no keyword of any bucket occurs in any label and predict returns the    *)
(* empty list.                                                             *)
(***************************************************************************)
C5_PlaceholdersMatchNothing ==
    (Predicted /\ labels = PlaceholderLabels(Len(probs))) =>
        /\ \A l \in Range(labels) : MatchedBuckets[l] = {}
        /\ outcome = [status |-> "returned", result |-> <<>>]

\* predict on the big architecture fell back to the placeholder names, two
\* digits long among them, and returned
C5_Witness ==
    /\ Predicted
    /\ ~labelSource.available
    /\ Len(probs) = BigClasses
    /\ labels = PlaceholderLabels(BigClasses)
    /\ labels[BigClasses] = "class_" \o Str(BigClasses - 1)
    /\ inputs.a > inputs.b
    /\ outcome.status = "returned"

(***************************************************************************)
(* C6: when no selected class has a label that contains a keyword of any   *)
(* bucket, predict returns the empty list and raises nothing.              *)
(***************************************************************************)
C6_NoMatchGivesEmptyList ==
    (Predicted /\ SelectedLabelled
        /\ \A i \in Selected : MatchedBuckets[labels[i + 1]] = {}) =>
        outcome = [status |-> "returned", result |-> <<>>]

\* an imported label list none of whose selected entries matches
C6_Witness ==
    /\ Predicted
    /\ labelSource.available
    /\ SelectedLabelled
    /\ Cardinality(Selected) = TopK
    /\ \A i \in Selected : MatchedBuckets[labels[i + 1]] = {}
    /\ outcome = [status |-> "returned", result |-> <<>>]

(***************************************************************************)
(* C7: a predict call that directly follows a predict call on the same     *)
(* image, on the same instance, has the same outcome: the same buckets,    *)
(* scores and order.                                                       *)
(***************************************************************************)
SamePredictAgain ==
    /\ op = "predict"
    /\ op' = "predict"
    /\ inputs' = inputs
    /\ model # NoModel
    /\ <<model_name, model, input_size, labelSource, tieBreak>>'
          = <<model_name, model, input_size, labelSource, tieBreak>>

\* C7: the same predict call again, nothing changed in between, has the same outcome
C7_RepeatedPredictAgrees == [][SamePredictAgain => outcome' = outcome]_vars

\* the second of two predict calls on one image returned a list whose first
\* two buckets tie
C7_Witness ==
    /\ Returned
    /\ repeated
    /\ Len(outcome.result) >= 2
    /\ outcome.result[1].score = outcome.result[2].score

(***************************************************************************)
(* C8: the instance's lifecycle and the statelessness of predict           *)
(***************************************************************************)
\* what predict returns or raises when nothing is left over from earlier calls
FreshOutcomeOf(p, lb, tk) ==
    IF \E k \in 1..Len(tk) : tk[k] >= Len(lb)
    THEN [status |-> "IndexError", result |-> <<>>]
    ELSE [status |-> "returned", result |-> Result(ScanFrom(tk, lb, p, 1, <<>>).found)]

FreshOutcomeFor(p, lb) == FreshOutcomeOf(p, lb, TopKOf(p, tieBreak))

\* the outcome of predict(inputs) as the first call after load
FreshOutcome ==
    FreshOutcomeFor(Softmax(Logits(model, inputs)),
                    ResolveLabels(labelSource, model.classes))

\* C8 as stated: once the instance is loaded it holds the model, the input
\* size and the label list, all created by load.
C8_LabelListCreatedByLoad ==
    (model # NoModel) =>
        /\ input_size = INPUT_SIZE
        /\ Len(labels) > 0

\* C8 as amended: load creates the model (in evaluation mode) and the input
\* size but no label list; afterwards no predict or configure call changes
\* the model, the input size, the model name or the label source; every
\* predict call obtains the label list anew, and its outcome is the outcome
\* the same call has as the first call after load.
C8_LoadedStateHeldPredictStateless ==
    /\ []((op = "load") =>
              /\ model = [name |-> model_name, classes |-> NumClasses(model_name),
                          training |-> FALSE]
              /\ input_size = INPUT_SIZE
              /\ labels = <<>>)
    /\ [](Predicted =>
              /\ labels = (IF labelSource.available THEN labelSource.labels
                           ELSE PlaceholderLabels(Len(probs)))
              /\ outcome = FreshOutcome)
    /\ [][(model # NoModel) =>
              /\ model' = model
              /\ input_size' = input_size
              /\ model_name' = model_name
              /\ labelSource' = labelSource]_vars

\* a predict call that follows another predict call on a loaded instance
\* and returns a non-empty list, the instance being as load left it
C8_Witness ==
    /\ Returned
    /\ repeated
    /\ model = [name |-> model_name, classes |-> NumClasses(model_name), training |-> FALSE]
    /\ input_size = INPUT_SIZE
    /\ Len(labels) > 0
    /\ Len(outcome.result) = 1

(***************************************************************************)
(* C9: predict selects min(20, class count) distinct classes, none of      *)
(* lower probability than a class left out; a bucket is in the returned    *)
(* list exactly when a selected class's label matches it, and its score is *)
(* the probability of such a class.                                        *)
(***************************************************************************)
C9_OnlyTopKCount ==
    /\ Predicted =>
          /\ Len(topk) = (IF Len(probs) < TopK THEN Len(probs) ELSE TopK)
          /\ Cardinality(Selected) = Len(topk)
          /\ Selected \subseteq 0..(Len(probs) - 1)
          /\ \A i \in Selected : \A j \in (0..(Len(probs) - 1)) \ Selected :
                probs[i + 1] >= probs[j + 1]
    /\ Returned =>
          /\ ResultBuckets = UNION {MatchedBuckets[labels[i + 1]] : i \in Selected}
          /\ \A k \in 1..Len(outcome.result) :
                \E i \in SelectedMatching(outcome.result[k].label) :
                    outcome.result[k].score = probs[i + 1]

\* more classes than TopK, and a class left out whose label matches buckets
\* none of which is returned, next to a bucket that is
C9_Witness ==
    /\ Returned
    /\ Len(probs) > TopK
    /\ ResultBuckets # {}
    /\ \E j \in (0..(Len(labels) - 1)) \ Selected :
          /\ j < Len(probs)
          /\ MatchedBuckets[labels[j + 1]] # {}
          /\ MatchedBuckets[labels[j + 1]] \cap ResultBuckets = {}

(***************************************************************************)
(* C10: the placeholder names are used exactly when the label import       *)
(* fails; an imported list is used as it is, and predict raises IndexError *)
(* exactly when a selected class index lies past the end of the list.      *)
(***************************************************************************)
C10_ShortListRaises ==
    Predicted =>
        /\ labelSource.available => labels = labelSource.labels
        /\ ~labelSource.available => labels = PlaceholderLabels(Len(probs))
        /\ (\E i \in Selected : i >= Len(labels)) =>
              /\ labelSource.available
              /\ outcome = [status |-> "IndexError", result |-> <<>>]
        /\ SelectedLabelled => outcome.status = "returned"

\* an imported list one entry short of the class count, and the class
\* without a label among those selected
C10_Witness ==
    /\ Predicted
    /\ labelSource.available
    /\ Len(labels) = Len(probs) - 1
    /\ Len(probs) - 1 \in Selected
    /\ outcome.status = "IndexError"

====
